---- MODULE Spec2Model ----
(***************************************************************************)
(* API-documentation extraction for classes and interfaces                 *)
(* (compiler-cli/src/ngtsc/docs/src/class_extractor.ts) and the            *)
(* skip-hydration ancestor walk (hydration/skip_hydration.ts).             *)
(*                                                                         *)
(* A declaration is a record {kind, name, modifiers, members}; a member is *)
(* a record {kind, name, modifiers, questionToken, pos}.  Optional values  *)
(* (T | undefined, T | null) are sequences of length at most one.          *)
(* Fields of the entries that are produced by collaborators outside this   *)
(* file (type strings, generics, JSDoc text, parameters) are not modelled. *)
(***************************************************************************)
EXTENDS Integers, Sequences, FiniteSets, TLC

VARIABLES
    declaration,     \* the class or interface declaration handed to the entry point
    metadataReader,  \* the MetadataReader: optional directive, pipe and module metadata
    pc,              \* position in extractClass / extractInterface
    extractor,       \* the extractor instance chosen by the entry point
    idx,             \* position of the loop of extractAllClassMembers
    members,         \* the local array `members` of extractAllClassMembers
    origins,         \* history: pos of the source member behind each element of members
    result,          \* the entry returned by extract()
    tNodes,          \* a parent chain: tNodes[1] is the queried node, tNodes[k+1] the parent of tNodes[k]
    currentTNode,    \* the local currentTNode of isInSkipHydrationBlock (0 is null)
    hpc,             \* position in isInSkipHydrationBlock
    skipResult       \* value returned by isInSkipHydrationBlock

vars == <<declaration, metadataReader, pc, extractor, idx, members, origins, result,
          tNodes, currentTNode, hpc, skipResult>>

extractVars == <<declaration, metadataReader, pc, extractor, idx, members, origins, result>>
hydrationVars == <<tNodes, currentTNode, hpc, skipResult>>

-----------------------------------------------------------------------------
(* Bounds of the explored inputs *)

MaxMembers == 3
MaxMods == 2
MaxDepth == 3
MaxAttrs == 3

-----------------------------------------------------------------------------
(* Optional values and small helpers *)

Null == <<>>
Some(x) == <<x>>

SeqsUpTo(S, n) == UNION {[1..k -> S] : k \in 0..n}

Range(s) == {s[i] : i \in 1..Len(s)}

-----------------------------------------------------------------------------
(* Syntax tree: members of a class or interface *)

NoName == ""

Names == {"a", "b"}

AngularPrivateNames == {"_internal"}

TagModifiers == {"StaticKeyword", "ReadonlyKeyword", "ProtectedKeyword", "AbstractKeyword"}

Modifiers == TagModifiers \cup {"PrivateKeyword", "Decorator"}

ClassMemberKinds == {"MethodDeclaration", "PropertyDeclaration", "GetAccessor", "SetAccessor"}

InterfaceMemberKinds == {"MethodSignature", "PropertySignature", "GetAccessor", "SetAccessor"}

\* Source positions of the members of a node array increase with the index.
PosOf(i) == 10 * i

NamedMembers(kinds, names, modifierLists) ==
    {[kind |-> k, name |-> n, modifiers |-> ms, questionToken |-> q] :
        k \in kinds, n \in names, ms \in modifierLists, q \in BOOLEAN}

\* Constructors and index signatures have no name.
UnnamedMember(kind) == [kind |-> kind, name |-> NoName, modifiers |-> <<>>, questionToken |-> FALSE]

\* A keyword occurs at most once among the modifiers of a member; decorators may repeat.
ModifierLists ==
    {ms \in SeqsUpTo(Modifiers, MaxMods) :
        \A i, j \in 1..Len(ms) : (i # j /\ ms[i] = ms[j]) => ms[i] = "Decorator"}

\* Several members, with few attributes each.
PlainMembers(kinds, unnamedKind) ==
    {m \in NamedMembers(kinds, Names, {<<>>, <<"PrivateKeyword">>}) : ~m.questionToken}
        \cup {UnnamedMember(unnamedKind)}

\* One member, with every attribute; accessors carry no question token.
DetailedMembers(kinds) ==
    {m \in NamedMembers(kinds, {"a"} \cup AngularPrivateNames, ModifierLists) :
        m.questionToken => m.kind \notin {"GetAccessor", "SetAccessor"}}

WithPos(ms) ==
    [i \in 1..Len(ms) |->
        [kind |-> ms[i].kind, name |-> ms[i].name, modifiers |-> ms[i].modifiers,
         questionToken |-> ms[i].questionToken, pos |-> PosOf(i)]]

-----------------------------------------------------------------------------
(* ClassExtractor: classification and filtering *)

\* The name filter of ./filters: a pure predicate on the member's name.
isAngularPrivateName(name) == name \in AngularPrivateNames

isProperty(member) == member.kind \in {"PropertyDeclaration", "PropertySignature"}

isMethod_accessors(member) ==
    member.kind \in {"MethodDeclaration", "MethodSignature", "GetAccessor", "SetAccessor"}

isMethod(member) == member.kind \in {"MethodDeclaration", "MethodSignature"}

isAccessor(member) == member.kind \in {"GetAccessor", "SetAccessor"}

isDocumentableMember(member) == isMethod(member) \/ isProperty(member) \/ isAccessor(member)

isMemberExcluded_noPrivate(member) ==
    \/ member.name = NoName
    \/ ~isDocumentableMember(member)
    \/ isAngularPrivateName(member.name)

isMemberExcluded(member) ==
    \/ member.name = NoName
    \/ ~isDocumentableMember(member)
    \/ \E i \in 1..Len(member.modifiers) : member.modifiers[i] = "PrivateKeyword"
    \/ isAngularPrivateName(member.name)

isAbstract(decl) == \E i \in 1..Len(decl.modifiers) : decl.modifiers[i] = "AbstractKeyword"

-----------------------------------------------------------------------------
(* ClassExtractor: overload resolution *)

RECURSIVE InsertByPos(_, _)
InsertByPos(sorted, m) ==
    IF sorted = <<>> THEN <<m>>
    ELSE IF Head(sorted).pos - m.pos > 0 THEN <<m>> \o sorted
    ELSE <<Head(sorted)>> \o InsertByPos(Tail(sorted), m)

\* Array.prototype.sort((a, b) => a.pos - b.pos)
RECURSIVE SortByPos(_)
SortByPos(s) ==
    IF s = <<>> THEN <<>>
    ELSE InsertByPos(SortByPos(SubSeq(s, 1, Len(s) - 1)), s[Len(s)])

isImplementationForOverload_first(decl, method) ==
    IF method.kind = "MethodSignature" THEN FALSE
    ELSE LET methodsWithSameName ==
                 SortByPos(SelectSeq(decl.members, LAMBDA member : member.name = method.name))
         IN  IF Len(methodsWithSameName) = 1 THEN FALSE
             ELSE method.pos = methodsWithSameName[1].pos

isImplementationForOverload_onlyMethods(decl, method) ==
    IF method.kind = "MethodSignature" THEN FALSE
    ELSE LET methodsWithSameName ==
                 SortByPos(SelectSeq(decl.members,
                     LAMBDA member : member.kind = method.kind /\ member.name = method.name))
         IN  IF Len(methodsWithSameName) = 1 THEN FALSE
             ELSE method.pos = methodsWithSameName[Len(methodsWithSameName)].pos

isImplementationForOverload(decl, method) ==
    IF method.kind = "MethodSignature" THEN FALSE
    ELSE LET methodsWithSameName ==
                 SortByPos(SelectSeq(decl.members, LAMBDA member : member.name = method.name))
         IN  IF Len(methodsWithSameName) = 1 THEN FALSE
             ELSE method.pos = methodsWithSameName[Len(methodsWithSameName)].pos

-----------------------------------------------------------------------------
(* ClassExtractor: member tags *)

getTagForMemberModifier_slip(mod) ==
    CASE mod = "StaticKeyword" -> Some("Static")
      [] mod = "ReadonlyKeyword" -> Some("Static")
      [] mod = "ProtectedKeyword" -> Some("Protected")
      [] mod = "AbstractKeyword" -> Some("Abstract")
      [] OTHER -> Null

getTagForMemberModifier(mod) ==
    CASE mod = "StaticKeyword" -> Some("Static")
      [] mod = "ReadonlyKeyword" -> Some("Readonly")
      [] mod = "ProtectedKeyword" -> Some("Protected")
      [] mod = "AbstractKeyword" -> Some("Abstract")
      [] OTHER -> Null

RECURSIVE getMemberTagsFromModifiers(_)
getMemberTagsFromModifiers(mods) ==
    IF mods = <<>> THEN <<>>
    ELSE getMemberTagsFromModifiers(SubSeq(mods, 1, Len(mods) - 1))
             \o getTagForMemberModifier(mods[Len(mods)])

getMemberTags(member) ==
    getMemberTagsFromModifiers(member.modifiers)
        \o (IF member.questionToken THEN <<"Optional">> ELSE <<>>)

-----------------------------------------------------------------------------
(* Metadata of a directive: the input and output mappings *)

\* ClassPropertyMapping.getByClassPropertyName: the binding of a class property, or null.
getByClassPropertyName(mapping, propName) ==
    LET found == {b \in mapping : b.classPropertyName = propName}
    IN  IF found = {} THEN Null ELSE Some(CHOOSE b \in found : TRUE)

getInputMetadata(metadata, prop) == getByClassPropertyName(metadata.inputs, prop.name)

getOutputMetadata(metadata, prop) == getByClassPropertyName(metadata.outputs, prop.name)

-----------------------------------------------------------------------------
(* Entries of members *)

\* FunctionExtractor.extract(): of its result only the name is kept here.
FunctionExtractor_extract(methodDeclaration) == [name |-> methodDeclaration.name]

extractMethod(methodDeclaration) ==
    [memberType |-> "Method", memberTags |-> getMemberTags(methodDeclaration)]
        @@ FunctionExtractor_extract(methodDeclaration)

ClassExtractor_extractClassProperty(propertyDeclaration) ==
    [name |-> propertyDeclaration.name,
     memberType |-> "Property",
     memberTags |-> getMemberTags(propertyDeclaration)]

DirectiveExtractor_extractClassProperty_elseIf(metadata, propertyDeclaration) ==
    LET entry == ClassExtractor_extractClassProperty(propertyDeclaration)
        inputMetadata == getInputMetadata(metadata, propertyDeclaration)
        outputMetadata == getOutputMetadata(metadata, propertyDeclaration)
    IN  IF inputMetadata # Null
        THEN [inputAlias |-> inputMetadata[1].bindingPropertyName,
              isRequiredInput |-> inputMetadata[1].required]
             @@ [entry EXCEPT !.memberTags = Append(@, "Input")]
        ELSE IF outputMetadata # Null
        THEN [outputAlias |-> outputMetadata[1].bindingPropertyName]
             @@ [entry EXCEPT !.memberTags = Append(@, "Output")]
        ELSE entry

DirectiveExtractor_extractClassProperty(metadata, propertyDeclaration) ==
    LET entry == ClassExtractor_extractClassProperty(propertyDeclaration)
        inputMetadata == getInputMetadata(metadata, propertyDeclaration)
        withInput ==
            IF inputMetadata # Null
            THEN [inputAlias |-> inputMetadata[1].bindingPropertyName,
                  isRequiredInput |-> inputMetadata[1].required]
                 @@ [entry EXCEPT !.memberTags = Append(@, "Input")]
            ELSE entry
        outputMetadata == getOutputMetadata(metadata, propertyDeclaration)
    IN  IF outputMetadata # Null
        THEN [outputAlias |-> outputMetadata[1].bindingPropertyName]
             @@ [withInput EXCEPT !.memberTags = Append(@, "Output")]
        ELSE withInput

\* this.extractClassProperty(...): the override of the extractor's class is the one called.
extractClassProperty(ext, propertyDeclaration) ==
    IF ext.class = "DirectiveExtractor"
    THEN DirectiveExtractor_extractClassProperty(ext.metadata, propertyDeclaration)
    ELSE ClassExtractor_extractClassProperty(propertyDeclaration)

extractGetterSetter_base(ext, accessor) ==
    [ClassExtractor_extractClassProperty(accessor) EXCEPT
        !.memberType = IF accessor.kind = "GetAccessor" THEN "Getter" ELSE "Setter"]

extractGetterSetter(ext, accessor) ==
    [extractClassProperty(ext, accessor) EXCEPT
        !.memberType = IF accessor.kind = "GetAccessor" THEN "Getter" ELSE "Setter"]

\* The entry of a member, or undefined.
extractClassMember(ext, decl, memberDeclaration) ==
    IF isMethod(memberDeclaration) /\ ~isImplementationForOverload(decl, memberDeclaration)
    THEN Some(extractMethod(memberDeclaration))
    ELSE IF isProperty(memberDeclaration)
    THEN Some(extractClassProperty(ext, memberDeclaration))
    ELSE IF isAccessor(memberDeclaration)
    THEN Some(extractGetterSetter(ext, memberDeclaration))
    ELSE Null

-----------------------------------------------------------------------------
(* Entries of declarations *)

ClassExtractor_extract(decl, memberEntries) ==
    [name |-> decl.name,
     isAbstract |-> isAbstract(decl),
     entryType |-> IF decl.kind = "InterfaceDeclaration" THEN "Interface" ELSE "UndecoratedClass",
     members |-> memberEntries]

DirectiveExtractor_extract(metadata, decl, memberEntries) ==
    [isStandalone |-> metadata.isStandalone,
     selector |-> IF metadata.selector = Null THEN "" ELSE metadata.selector[1],
     exportAs |-> IF metadata.exportAs = Null THEN <<>> ELSE metadata.exportAs[1],
     entryType |-> IF metadata.isComponent THEN "Component" ELSE "Directive"]
        @@ ClassExtractor_extract(decl, memberEntries)

PipeExtractor_extract(metadata, decl, memberEntries) ==
    [pipeName |-> metadata.name,
     entryType |-> "Pipe",
     isStandalone |-> metadata.isStandalone]
        @@ ClassExtractor_extract(decl, memberEntries)

NgModuleExtractor_extract(metadata, decl, memberEntries) ==
    [entryType |-> "NgModule"] @@ ClassExtractor_extract(decl, memberEntries)

\* extractor.extract(): the override of the extractor's class.
extract(ext, decl, memberEntries) ==
    CASE ext.class = "DirectiveExtractor" -> DirectiveExtractor_extract(ext.metadata, decl, memberEntries)
      [] ext.class = "PipeExtractor" -> PipeExtractor_extract(ext.metadata, decl, memberEntries)
      [] ext.class = "NgModuleExtractor" -> NgModuleExtractor_extract(ext.metadata, decl, memberEntries)
      [] OTHER -> ClassExtractor_extract(decl, memberEntries)

-----------------------------------------------------------------------------
(* Entry points *)

newExtractor_pipeFirst(reader) ==
    IF reader.pipe # Null
    THEN [class |-> "PipeExtractor", metadata |-> reader.pipe[1]]
    ELSE IF reader.directive # Null
    THEN [class |-> "DirectiveExtractor", metadata |-> reader.directive[1]]
    ELSE IF reader.ngModule # Null
    THEN [class |-> "NgModuleExtractor", metadata |-> reader.ngModule[1]]
    ELSE [class |-> "ClassExtractor", metadata |-> Null]

\* The if/else chain of extractClass over the three metadata lookups.
newExtractor(reader) ==
    IF reader.directive # Null
    THEN [class |-> "DirectiveExtractor", metadata |-> reader.directive[1]]
    ELSE IF reader.pipe # Null
    THEN [class |-> "PipeExtractor", metadata |-> reader.pipe[1]]
    ELSE IF reader.ngModule # Null
    THEN [class |-> "NgModuleExtractor", metadata |-> reader.ngModule[1]]
    ELSE [class |-> "ClassExtractor", metadata |-> Null]

NoExtractor == [class |-> "none", metadata |-> Null]

\* extractClass up to the call of extractor.extract()
ExtractClass ==
    /\ pc = "start"
    /\ declaration.kind = "ClassDeclaration"
    /\ extractor' = newExtractor(metadataReader)
    /\ members' = <<>>
    /\ origins' = <<>>
    /\ idx' = 1
    /\ pc' = "members"
    /\ UNCHANGED <<declaration, metadataReader, result>>
    /\ UNCHANGED hydrationVars

\* extractInterface up to the call of extractor.extract()
ExtractInterface ==
    /\ pc = "start"
    /\ declaration.kind = "InterfaceDeclaration"
    /\ extractor' = [class |-> "ClassExtractor", metadata |-> Null]
    /\ members' = <<>>
    /\ origins' = <<>>
    /\ idx' = 1
    /\ pc' = "members"
    /\ UNCHANGED <<declaration, metadataReader, result>>
    /\ UNCHANGED hydrationVars

pushEntry_front(entries, memberEntry) == memberEntry \o entries

\* if (memberEntry) members.push(memberEntry)
pushEntry(entries, memberEntry) == entries \o memberEntry

\* One iteration of the loop of extractAllClassMembers
ExtractAllClassMembers ==
    /\ pc = "members"
    /\ idx <= Len(declaration.members)
    /\ LET member == declaration.members[idx]
           memberEntry == IF isMemberExcluded(member) THEN Null
                          ELSE extractClassMember(extractor, declaration, member)
       IN  /\ members' = pushEntry(members, memberEntry)
           /\ origins' = pushEntry(origins, IF memberEntry = Null THEN Null ELSE Some(member.pos))
    /\ idx' = idx + 1
    /\ UNCHANGED <<declaration, metadataReader, pc, extractor, result>>
    /\ UNCHANGED hydrationVars

\* The loop is over: extract() assembles the entry and the entry point returns it
Extract ==
    /\ pc = "members"
    /\ idx > Len(declaration.members)
    /\ result' = Some(extract(extractor, declaration, members))
    /\ pc' = "done"
    /\ UNCHANGED <<declaration, metadataReader, extractor, idx, members, origins>>
    /\ UNCHANGED hydrationVars

-----------------------------------------------------------------------------
(* Inputs of the entry points *)

Declaration(kind, modifiers, ms) ==
    [kind |-> kind, name |-> "D", modifiers |-> modifiers, members |-> WithPos(ms)]

PlainClasses ==
    {Declaration("ClassDeclaration", <<>>, ms) :
        ms \in SeqsUpTo(PlainMembers(ClassMemberKinds, "Constructor"), MaxMembers)}

PlainInterfaces ==
    {Declaration("InterfaceDeclaration", <<>>, ms) :
        ms \in SeqsUpTo(PlainMembers(InterfaceMemberKinds, "IndexSignature"), MaxMembers)}

DetailedClasses ==
    {Declaration("ClassDeclaration", mods, <<m>>) :
        mods \in {<<>>, <<"AbstractKeyword">>}, m \in DetailedMembers(ClassMemberKinds)}

DetailedInterfaces ==
    {Declaration("InterfaceDeclaration", <<>>, <<m>>) : m \in DetailedMembers(InterfaceMemberKinds)}

InputMappings ==
    {{}} \cup {{[classPropertyName |-> "a", bindingPropertyName |-> "aAlias", required |-> r]} :
                   r \in BOOLEAN}

OutputMappings == {{}, {[classPropertyName |-> "a", bindingPropertyName |-> "aChange"]}}

DirectiveMetas ==
    [isComponent : BOOLEAN, isStandalone : {TRUE}, selector : {Some("[d]")}, exportAs : {Null},
     inputs : InputMappings, outputs : OutputMappings]

PipeMetas == {[name |-> "d", isStandalone |-> TRUE]}

NgModuleMetas == {[ref |-> "D"]}

MetadataReaders ==
    [directive : {Null} \cup {Some(m) : m \in DirectiveMetas},
     pipe : {Null} \cup {Some(m) : m \in PipeMetas},
     ngModule : {Null} \cup {Some(m) : m \in NgModuleMetas}]

\* Readers that know the declaration under at most one kind of metadata.
SingleMetadataReaders ==
    {r \in MetadataReaders :
        /\ Len(r.directive) + Len(r.pipe) + Len(r.ngModule) <= 1
        /\ r.directive # Null =>
              /\ ~r.directive[1].isComponent
              /\ r.directive[1].inputs # {}
              /\ r.directive[1].outputs # {}
              /\ \A b \in r.directive[1].inputs : b.required}

NoMetadataReader == [directive |-> Null, pipe |-> Null, ngModule |-> Null]

HydrationIdle ==
    /\ tNodes = <<>>
    /\ currentTNode = 0
    /\ hpc = "idle"
    /\ skipResult = Null

Init ==
    /\ \/ declaration \in PlainClasses /\ metadataReader \in SingleMetadataReaders
       \/ declaration \in DetailedClasses /\ metadataReader \in MetadataReaders
       \/ declaration \in PlainInterfaces \cup DetailedInterfaces /\ metadataReader = NoMetadataReader
    /\ pc = "start"
    /\ extractor = NoExtractor
    /\ idx = 0
    /\ members = <<>>
    /\ origins = <<>>
    /\ result = Null
    /\ HydrationIdle

Next ==
    \/ ExtractClass
    \/ ExtractInterface
    \/ ExtractAllClassMembers
    \/ Extract

Spec == Init /\ [][Next]_vars

-----------------------------------------------------------------------------
(* Skip-hydration: attributes of a TNode *)

UpperCaseLetters ==
    <<"A", "B", "C", "D", "E", "F", "G", "H", "I", "J", "K", "L", "M",
      "N", "O", "P", "Q", "R", "S", "T", "U", "V", "W", "X", "Y", "Z">>

LowerCaseLetters ==
    <<"a", "b", "c", "d", "e", "f", "g", "h", "i", "j", "k", "l", "m",
      "n", "o", "p", "q", "r", "s", "t", "u", "v", "w", "x", "y", "z">>

\* String.prototype.toLowerCase on a string given as the sequence of its characters
toLowerCase(str) ==
    [i \in 1..Len(str) |->
        IF \E k \in 1..Len(UpperCaseLetters) : UpperCaseLetters[k] = str[i]
        THEN LowerCaseLetters[CHOOSE k \in 1..Len(UpperCaseLetters) : UpperCaseLetters[k] = str[i]]
        ELSE str[i]]

SKIP_HYDRATION_ATTR_NAME ==
    <<"n", "g", "S", "k", "i", "p", "H", "y", "d", "r", "a", "t", "i", "o", "n">>

SKIP_HYDRATION_ATTR_NAME_LOWER_CASE ==
    <<"n", "g", "s", "k", "i", "p", "h", "y", "d", "r", "a", "t", "i", "o", "n">>

StringValue(chars) == [type |-> "string", chars |-> chars]

\* An AttributeMarker
NumberValue(n) == [type |-> "number", value |-> n]

AttrValues == {StringValue(SKIP_HYDRATION_ATTR_NAME), StringValue(<<"i", "d">>), NumberValue(1)}

\* Name and value pairs come first: the first marker of mergedAttrs stands at an even index.
MergedAttrs ==
    {Null} \cup
    {Some(attrs) : attrs \in
        {a \in SeqsUpTo(AttrValues, MaxAttrs) :
            \A i \in 1..Len(a) :
                (a[i].type = "number" /\ \A j \in 1..(i - 1) : a[j].type # "number") => i % 2 = 1}}

\* The loop of hasSkipHydrationAttrOnTNode from index i (indices count from 0)
RECURSIVE scanAttrs(_, _)
scanAttrs(attrs, i) ==
    IF ~(i < Len(attrs)) THEN FALSE
    ELSE LET value == attrs[i + 1]
         IN  IF value.type = "number" THEN FALSE
             ELSE IF value.type = "string"
                     /\ toLowerCase(value.chars) = SKIP_HYDRATION_ATTR_NAME_LOWER_CASE
             THEN TRUE
             ELSE scanAttrs(attrs, i + 2)

hasSkipHydrationAttrOnTNode(tNode) ==
    IF tNode.mergedAttrs = Null THEN FALSE ELSE scanAttrs(tNode.mergedAttrs[1], 0)

hasInSkipHydrationBlockFlag(tNode) == "inSkipHydrationBlock" \in tNode.flags

\* tNode.parent, for the node at position k of the chain (0 is null)
parent(k) == IF k < Len(tNodes) THEN k + 1 ELSE 0

-----------------------------------------------------------------------------
(* Skip-hydration: isInSkipHydrationBlock(tNodes[1]) *)

\* let currentTNode = tNode
firstTNode_self == IF tNodes # <<>> THEN Len(tNodes) - (Len(tNodes) - 1) ELSE 0

\* let currentTNode = tNode.parent
firstTNode == parent(1)

IsInSkipHydrationBlock_call ==
    /\ hpc = "call"
    /\ currentTNode' = firstTNode
    /\ hpc' = "while"
    /\ UNCHANGED <<tNodes, skipResult>>
    /\ UNCHANGED extractVars

\* One iteration of the while loop
IsInSkipHydrationBlock_loop ==
    /\ hpc = "while"
    /\ currentTNode # 0
    /\ IF hasSkipHydrationAttrOnTNode(tNodes[currentTNode])
       THEN /\ skipResult' = Some(TRUE)
            /\ hpc' = "returned"
            /\ UNCHANGED currentTNode
       ELSE /\ currentTNode' = parent(currentTNode)
            /\ UNCHANGED <<hpc, skipResult>>
    /\ UNCHANGED tNodes
    /\ UNCHANGED extractVars

\* currentTNode is null: return false
IsInSkipHydrationBlock_return ==
    /\ hpc = "while"
    /\ currentTNode = 0
    /\ skipResult' = Some(FALSE)
    /\ hpc' = "returned"
    /\ UNCHANGED <<tNodes, currentTNode>>
    /\ UNCHANGED extractVars

TNode(attrs, flags) == [mergedAttrs |-> attrs, flags |-> flags]

\* The queried node: without attributes, or with ngSkipHydration="" on itself
OwnMergedAttrs == {Null, Some(<<StringValue(SKIP_HYDRATION_ATTR_NAME), StringValue(<<>>)>>)}

\* Parent chains of at most MaxDepth nodes: the queried node, then its ancestors
TNodeChains ==
    {<<TNode(a, f)>> \o ancestors :
        a \in OwnMergedAttrs, f \in SUBSET {"inSkipHydrationBlock"},
        ancestors \in SeqsUpTo({TNode(b, {}) : b \in MergedAttrs}, MaxDepth - 1)}

ExtractIdle ==
    /\ declaration = Declaration("ClassDeclaration", <<>>, <<>>)
    /\ metadataReader = NoMetadataReader
    /\ pc = "idle"
    /\ extractor = NoExtractor
    /\ idx = 0
    /\ members = <<>>
    /\ origins = <<>>
    /\ result = Null

InitHydration ==
    /\ tNodes \in TNodeChains
    /\ currentTNode = 0
    /\ hpc = "call"
    /\ skipResult = Null
    /\ ExtractIdle

NextHydration ==
    \/ IsInSkipHydrationBlock_call
    \/ IsInSkipHydrationBlock_loop
    \/ IsInSkipHydrationBlock_return

\* The function runs to completion once called
SpecHydration == InitHydration /\ [][NextHydration]_vars /\ WF_vars(NextHydration)

-----------------------------------------------------------------------------
(* Vocabulary of the properties *)

Members == declaration.members

IsClass == declaration.kind = "ClassDeclaration"

MethodLike(m) == m.kind \in {"MethodDeclaration", "MethodSignature"}

PropertyLike(m) == m.kind \in {"PropertyDeclaration", "PropertySignature"}

AccessorLike(m) == m.kind \in {"GetAccessor", "SetAccessor"}

HasModifier(m, keyword) == keyword \in Range(m.modifiers)

\* The four grounds of exclusion
Excluded(m) ==
    \/ m.name = NoName
    \/ ~(MethodLike(m) \/ PropertyLike(m) \/ AccessorLike(m))
    \/ HasModifier(m, "PrivateKeyword")
    \/ m.name \in AngularPrivateNames

\* The positions in members of the entries built from member m
EntriesOf(m) == {k \in 1..Len(origins) : origins[k] = m.pos}

\* The members of the declaration that share the name of Members[i]
SameName(i) == {j \in 1..Len(Members) : Members[j].name = Members[i].name}

\* Members[i] stands last among two or more members of its name
LastOfSeveral(i) == Cardinality(SameName(i)) > 1 /\ \A j \in SameName(i) : j <= i

\* The source member of the entry at position k of members
SourceOf(k) == CHOOSE m \in Range(Members) : m.pos = origins[k]

InputBound(name) ==
    extractor.class = "DirectiveExtractor"
        /\ \E b \in extractor.metadata.inputs : b.classPropertyName = name

OutputBound(name) ==
    extractor.class = "DirectiveExtractor"
        /\ \E b \in extractor.metadata.outputs : b.classPropertyName = name

\* The entry e is enriched for inputs and outputs exactly as the bindings of name say
EnrichedAsBound(e, name) ==
    /\ ("Input" \in Range(e.memberTags)) <=> InputBound(name)
    /\ ("inputAlias" \in DOMAIN e) <=> InputBound(name)
    /\ ("isRequiredInput" \in DOMAIN e) <=> InputBound(name)
    /\ InputBound(name) =>
          \E b \in extractor.metadata.inputs :
              /\ b.classPropertyName = name
              /\ e.inputAlias = b.bindingPropertyName
              /\ e.isRequiredInput = b.required
    /\ ("Output" \in Range(e.memberTags)) <=> OutputBound(name)
    /\ ("outputAlias" \in DOMAIN e) <=> OutputBound(name)
    /\ OutputBound(name) =>
          \E b \in extractor.metadata.outputs :
              b.classPropertyName = name /\ e.outputAlias = b.bindingPropertyName

TagOfModifier ==
    [keyword \in TagModifiers |->
        CASE keyword = "StaticKeyword" -> "Static"
          [] keyword = "ReadonlyKeyword" -> "Readonly"
          [] keyword = "ProtectedKeyword" -> "Protected"
          [] keyword = "AbstractKeyword" -> "Abstract"]

\* The tags the modifiers, the optional marker and the bindings of a member call for
TagsFor(m, memberType) ==
    LET tagged == SelectSeq(m.modifiers, LAMBDA keyword : keyword \in TagModifiers)
    IN  [i \in 1..Len(tagged) |-> TagOfModifier[tagged[i]]]
            \o (IF m.questionToken THEN <<"Optional">> ELSE <<>>)
            \o (IF memberType # "Method" /\ InputBound(m.name) THEN <<"Input">> ELSE <<>>)
            \o (IF memberType # "Method" /\ OutputBound(m.name) THEN <<"Output">> ELSE <<>>)

NoDuplicates(s) == \A i, j \in 1..Len(s) : s[i] = s[j] => i = j

-----------------------------------------------------------------------------
(* C1 *)

\* C1, as stated: once extract has returned, every group of non-excluded method-like
\* members sharing a name has, in a class, exactly one entry, the one of the
\* last-declared member of the group, and in an interface no entry at all.
C1_LastOfGroupOnly ==
    pc = "done" =>
        \A i \in 1..Len(Members) :
            LET group == {j \in SameName(i) : MethodLike(Members[j])}
                last == CHOOSE j \in group : \A l \in group : l <= j
            IN  (MethodLike(Members[i]) /\ \A j \in group : ~Excluded(Members[j])) =>
                    IF IsClass
                    THEN /\ Cardinality(EntriesOf(Members[last])) = 1
                         /\ \A j \in group \ {last} : EntriesOf(Members[j]) = {}
                    ELSE \A j \in group : EntriesOf(Members[j]) = {}

\* C1, amended: once extract has returned, a non-excluded method of a class has exactly
\* one entry unless it stands last among two or more members of the declaration that
\* share its name, and then it has none; a non-excluded method signature of an
\* interface always has exactly one entry.
C1_SignaturesNotImplementation ==
    pc = "done" =>
        \A i \in 1..Len(Members) :
            (MethodLike(Members[i]) /\ ~Excluded(Members[i])) =>
                IF IsClass /\ LastOfSeveral(i)
                THEN EntriesOf(Members[i]) = {}
                ELSE /\ Cardinality(EntriesOf(Members[i])) = 1
                     /\ \A k \in EntriesOf(Members[i]) : members[k].memberType = "Method"

\* A class with two overloads of one method and nothing else of that name: the first
\* has an entry, the second has none.
C1_Witness ==
    /\ pc = "done"
    /\ IsClass
    /\ \E i, j \in 1..Len(Members) :
          /\ i < j
          /\ SameName(i) = {i, j}
          /\ MethodLike(Members[i]) /\ MethodLike(Members[j])
          /\ ~Excluded(Members[i]) /\ ~Excluded(Members[j])
          /\ EntriesOf(Members[i]) # {}
          /\ EntriesOf(Members[j]) = {}

-----------------------------------------------------------------------------
(* C2 *)

\* The loop has passed Members[i] and has asked isImplementationForOverload about it
Resolved(i) == i < idx /\ MethodLike(Members[i]) /\ ~Excluded(Members[i])

\* C2, as stated: isImplementationForOverload is false for a method signature, true for
\* a class method that is the only member of its name, and otherwise true exactly for
\* the member at the last position among the members of its name.
C2_TrueWhenAlone ==
    \A i \in 1..Len(Members) :
        Resolved(i) =>
            (isImplementationForOverload(declaration, Members[i])
                <=> /\ Members[i].kind # "MethodSignature"
                    /\ (SameName(i) = {i} \/ \A j \in SameName(i) : j <= i))

\* C2, amended: isImplementationForOverload is false for a method signature, false for
\* a class method that is the only member of its name, and otherwise true exactly for
\* the member at the last position among the members of its name.
C2_FalseWhenAlone ==
    \A i \in 1..Len(Members) :
        Resolved(i) =>
            (isImplementationForOverload(declaration, Members[i])
                <=> /\ Members[i].kind # "MethodSignature"
                    /\ SameName(i) # {i}
                    /\ \A j \in SameName(i) : j <= i)

\* The loop has passed a class method that follows a property of its own name (the
\* method is the implementation) and a class method that is alone of its name.
C2_Witness ==
    /\ IsClass
    /\ idx > Len(Members)
    /\ \E i, j, l \in 1..Len(Members) :
          /\ i < j
          /\ SameName(j) = {i, j}
          /\ PropertyLike(Members[i]) /\ Resolved(j)
          /\ isImplementationForOverload(declaration, Members[j])
          /\ SameName(l) = {l}
          /\ Resolved(l)
          /\ ~isImplementationForOverload(declaration, Members[l])

-----------------------------------------------------------------------------
(* C3 *)

\* C3: a member without a name, or that is no method, property or accessor, or with a
\* private modifier, or with a framework-private name never has an entry in members,
\* under any extractor.
C3_ExcludedNeverEmitted ==
    \A i \in 1..Len(Members) : Excluded(Members[i]) => EntriesOf(Members[i]) = {}

\* A directive extraction has returned for a class whose member is private, carries
\* another modifier as well and has an input binding.
C3_Witness ==
    /\ pc = "done"
    /\ extractor.class = "DirectiveExtractor"
    /\ \E i \in 1..Len(Members) :
          /\ HasModifier(Members[i], "PrivateKeyword")
          /\ HasModifier(Members[i], "StaticKeyword")
          /\ PropertyLike(Members[i])
          /\ InputBound(Members[i].name)
          /\ EntriesOf(Members[i]) = {}

-----------------------------------------------------------------------------
(* C4 *)

\* C4: members is an order-preserving subsequence of the declaration's members: every
\* entry stems from one non-excluded member whose name it bears, and the source
\* positions of the entries strictly increase, so that no member has two entries.
C4_MembersInSourceOrder ==
    /\ Len(origins) = Len(members)
    /\ \A k \in 1..Len(members) :
          /\ Cardinality({i \in 1..Len(Members) : Members[i].pos = origins[k]}) = 1
          /\ ~Excluded(SourceOf(k))
          /\ members[k].name = SourceOf(k).name
    /\ \A k, l \in 1..Len(members) : k < l => origins[k] < origins[l]

\* Two entries were emitted around a member that was left out.
C4_Witness ==
    /\ pc = "done"
    /\ Len(members) = 2
    /\ Len(Members) = 3
    /\ Excluded(Members[2])
    /\ members[1].name # members[2].name

-----------------------------------------------------------------------------
(* C5 *)

\* C5: the entry returned by extractClass is Component or Directive (by isComponent)
\* when there is directive metadata, else Pipe when there is pipe metadata, else
\* NgModule when there is module metadata, else UndecoratedClass.
C5_ExtractorPrecedence ==
    (pc = "done" /\ IsClass) =>
        LET entryType == result[1].entryType
            directive == metadataReader.directive
            pipe == metadataReader.pipe
            ngModule == metadataReader.ngModule
        IN  /\ (directive # Null /\ directive[1].isComponent) => entryType = "Component"
            /\ (directive # Null /\ ~directive[1].isComponent) => entryType = "Directive"
            /\ (directive = Null /\ pipe # Null) => entryType = "Pipe"
            /\ (directive = Null /\ pipe = Null /\ ngModule # Null) => entryType = "NgModule"
            /\ (directive = Null /\ pipe = Null /\ ngModule = Null) =>
                  entryType = "UndecoratedClass"

\* A class known as a directive and as a pipe came out as a Directive entry.
C5_Witness ==
    /\ pc = "done"
    /\ metadataReader.directive # Null
    /\ metadataReader.pipe # Null
    /\ result[1].entryType = "Directive"

-----------------------------------------------------------------------------
(* C6 *)

\* C6: in a directive extraction every Property entry has the Input tag, inputAlias and
\* isRequiredInput exactly when the metadata binds its name as an input, and the
\* Output tag and outputAlias exactly when the metadata binds its name as an output.
C6_PropertyBindings ==
    extractor.class = "DirectiveExtractor" =>
        \A k \in 1..Len(members) :
            members[k].memberType = "Property" =>
                EnrichedAsBound(members[k], SourceOf(k).name)

\* A property bound as input and as output was emitted with both tags.
C6_Witness ==
    /\ pc = "done"
    /\ extractor.class = "DirectiveExtractor"
    /\ \E k \in 1..Len(members) :
          /\ members[k].memberType = "Property"
          /\ "Input" \in Range(members[k].memberTags)
          /\ "Output" \in Range(members[k].memberTags)
          /\ members[k].isRequiredInput

-----------------------------------------------------------------------------
(* C7 *)

\* C7: once extract has returned for a class, a non-excluded getter and a non-excluded
\* setter of one name have one entry each, of memberType Getter and Setter, in the
\* order of the source.
C7_GetterAndSetter ==
    (pc = "done" /\ IsClass) =>
        \A i, j \in 1..Len(Members) :
            ( /\ i < j
              /\ Members[i].name = Members[j].name
              /\ {Members[i].kind, Members[j].kind} = {"GetAccessor", "SetAccessor"}
              /\ ~Excluded(Members[i]) /\ ~Excluded(Members[j]) ) =>
                \E k, l \in 1..Len(members) :
                    /\ k < l
                    /\ EntriesOf(Members[i]) = {k}
                    /\ EntriesOf(Members[j]) = {l}
                    /\ members[k].memberType =
                          (IF Members[i].kind = "GetAccessor" THEN "Getter" ELSE "Setter")
                    /\ members[l].memberType =
                          (IF Members[j].kind = "GetAccessor" THEN "Getter" ELSE "Setter")

\* A setter followed by the getter of the same name: two entries, Setter then Getter.
C7_Witness ==
    /\ pc = "done"
    /\ IsClass
    /\ Len(Members) = 2
    /\ Members[1].kind = "SetAccessor"
    /\ Members[2].kind = "GetAccessor"
    /\ Members[1].name = Members[2].name
    /\ Len(members) = 2
    /\ members[1].memberType = "Setter"
    /\ members[2].memberType = "Getter"

-----------------------------------------------------------------------------
(* C8 *)

-----------------------------------------------------------------------------
(* C9 *)

\* C9: in a directive extraction a Getter or Setter entry is enriched for inputs and
\* outputs as a property is and keeps the memberType of its accessor, and a Method
\* entry has no Input tag, no Output tag and no alias, whatever the bindings.
C9_AccessorsEnrichedMethodsNot ==
    extractor.class = "DirectiveExtractor" =>
        \A k \in 1..Len(members) :
            /\ AccessorLike(SourceOf(k)) =>
                  /\ members[k].memberType =
                        (IF SourceOf(k).kind = "GetAccessor" THEN "Getter" ELSE "Setter")
                  /\ EnrichedAsBound(members[k], SourceOf(k).name)
            /\ members[k].memberType = "Method" =>
                  /\ "Input" \notin Range(members[k].memberTags)
                  /\ "Output" \notin Range(members[k].memberTags)
                  /\ DOMAIN members[k] \cap {"inputAlias", "isRequiredInput", "outputAlias"} = {}

\* A method and a getter of one bound name: the Method entry is bare, the Getter entry
\* has the Input tag.
C9_Witness ==
    /\ pc = "done"
    /\ extractor.class = "DirectiveExtractor"
    /\ \E k, l \in 1..Len(members) :
          /\ members[k].memberType = "Method"
          /\ InputBound(SourceOf(k).name)
          /\ OutputBound(SourceOf(k).name)
          /\ members[l].memberType = "Getter"
          /\ "Input" \in Range(members[l].memberTags)
          /\ members[l].inputAlias = "aAlias"

-----------------------------------------------------------------------------
(* C10 *)

SameLetter(c, d) ==
    \/ c = d
    \/ \E k \in 1..Len(UpperCaseLetters) : {c, d} = {UpperCaseLetters[k], LowerCaseLetters[k]}

EqualIgnoringCase(s, t) == Len(s) = Len(t) /\ \A i \in 1..Len(s) : SameLetter(s[i], t[i])

\* An attribute name at an even index, before the first marker, is ngskiphydration
NamesSkipHydration(tNode) ==
    /\ tNode.mergedAttrs # Null
    /\ LET attrs == tNode.mergedAttrs[1]
       IN  \E i \in 0..(Len(attrs) - 1) :
               /\ i % 2 = 0
               /\ attrs[i + 1].type = "string"
               /\ EqualIgnoringCase(attrs[i + 1].chars, SKIP_HYDRATION_ATTR_NAME_LOWER_CASE)
               /\ \A j \in 0..(i - 1) : attrs[j + 1].type # "number"

AncestorNamesSkipHydration == \E k \in 2..Len(tNodes) : NamesSkipHydration(tNodes[k])

\* C10: isInSkipHydrationBlock returns, and what it returns is true exactly when a proper
\* ancestor of the node names ngSkipHydration; the node's own attributes and flag play
\* no part.
C10_AncestorWalk ==
    /\ [](hpc = "returned" => skipResult = Some(AncestorNamesSkipHydration))
    /\ <>(hpc = "returned")

\* True was returned for a flagged node past a parent that does not name the attribute.
C10_Witness ==
    /\ hpc = "returned"
    /\ Len(tNodes) = 3
    /\ hasInSkipHydrationBlockFlag(tNodes[1])
    /\ ~NamesSkipHydration(tNodes[1])
    /\ ~NamesSkipHydration(tNodes[2])
    /\ NamesSkipHydration(tNodes[3])
    /\ skipResult = Some(TRUE)

====
